---- MODULE Spec2Model ----
(***************************************************************************)
(* Vending tracker server: the item store, the sale ledger, the sale       *)
(* handler (POST /api/sales) split at its three storage operations, and    *)
(* the two report handlers (GET /api/reports/excel, /api/reports/pdf).     *)
(*                                                                         *)
(* Money is counted in cents (price 1.50 is 150).  Instants are            *)
(* milliseconds since the epoch, dates are day numbers ("YYYY-MM-DD").     *)
(* An optional value is a sequence: <<>> when absent, <<v>> when present.  *)
(* A string that is absent or empty is "".                                 *)
(***************************************************************************)
EXTENDS Integers, Sequences, FiniteSets

\* ---------------------------------------------------------------- bounds
MaxItems == 1
MaxCalls == 2
MaxDay == 1

ItemIds == 1..MaxItems
Calls == 1..MaxCalls
Days == 1..MaxDay

MsPerHour == 60 * 60 * 1000
MsPerDay == 24 * MsPerHour

\* the server's time zone, local time minus UTC
TzOffsets == {0 - 5 * MsPerHour, 0, 5 * MsPerHour}

\* the instants at which the clock is read: the first and the last
\* millisecond of each day (UTC)
Instants == {d * MsPerDay + o : d \in Days, o \in {0, MsPerDay - 1}}

\* ---------------------------------------------------------------- inputs
\* POST /api/items bodies: a complete one for each stock, one without a
\* name, one without a price
ItemRequests ==
  {[name |-> "Soda", price |-> <<150>>, stock |-> st] : st \in {<<>>, <<0 - 1>>, <<10>>}}
    \cup {[name |-> "", price |-> <<150>>, stock |-> <<10>>],
          [name |-> "Soda", price |-> <<>>, stock |-> <<10>>]}

\* POST /api/sales bodies: complete ones (the item id well-formed, whether or
\* not it names an item), and ones with a field absent, zero or malformed
\* (the item id 0 is no ObjectId)
SaleRequests ==
  {[itemId |-> <<i>>, quantity |-> <<q>>, paymentType |-> "cash", buyerType |-> b] :
     i \in ItemIds, q \in {0 - 1, 3}, b \in {"", "Guest"}}
    \cup {[itemId |-> i, quantity |-> q, paymentType |-> p, buyerType |-> ""] :
            <<i, q, p>> \in {<<<<>>, <<3>>, "cash">>, <<<<0>>, <<3>>, "cash">>,
                             <<<<1>>, <<>>, "cash">>, <<<<1>>, <<0>>, "cash">>,
                             <<<<1>>, <<3>>, "">>}}

Formats == {"excel", "pdf"}
DateInputs == {<<>>} \cup {<<d>> : d \in Days}

VARIABLES
  items,    \* the items collection: id -> [name, price, stock]
  created,  \* id -> the stock each item was stored with when created
  sales,    \* the sales collection, in insertion order
  calls,    \* the POST /api/sales handlers: position and local variables
  started,  \* how many sale requests have been received
  now,      \* Date.now()
  tz,       \* the server's time zone offset
  out       \* the response sent by the latest step, if it sent one

vars == <<items, created, sales, calls, started, now, tz, out>>

\* ------------------------------------------------------------ JavaScript
\* !x for an optional number: undefined and 0 are falsy
Falsy(x) == x = <<>> \/ x[1] = 0

\* stock || 0
OrZero(x) == IF Falsy(x) THEN 0 ELSE x[1]

\* new Date("YYYY-MM-DD"): midnight UTC of that day
ParseDate(d) == d * MsPerDay

\* Date.prototype.setHours(23, 59, 59, 999): the last millisecond of the
\* local day the instant falls in
SetHoursEndOfDay(t) ==
  LET loc == t + tz
  IN  (loc - (loc % MsPerDay)) + (MsPerDay - 1) - tz

\* Number.prototype.toFixed(2) of an amount in cents
ToFixed2(c) ==
  LET a == IF c < 0 THEN 0 - c ELSE c
  IN  [neg |-> c < 0, whole |-> a \div 100, frac |-> a % 100]

\* Date.prototype.toLocaleString(): the local day and time of day
ToLocaleString(t) ==
  LET loc == t + tz
  IN  [day |-> loc \div MsPerDay, ms |-> loc % MsPerDay]

NoResponse == [op |-> "none", status |-> 0, error |-> "", req |-> <<>>, body |-> <<>>]
Response(op, status, error, req, body) ==
  [op |-> op, status |-> status, error |-> error, req |-> req, body |-> body]

\* ---------------------------------------------------------------- schemas
\* saleSchema.buyerType: enum with default "Customer"
BuyerTypeEnum == {"Owner", "Staff", "Customer"}
BuyerTypeOrDefault(b) == IF b = "" THEN "Customer" ELSE b
ValidBuyerType(b) == b \in BuyerTypeEnum

\* ------------------------------------------------------------- item store
\* Item.findById(id): the document, or null
FindById(id) == IF id \in DOMAIN items THEN <<items[id]>> ELSE <<>>

\* a malformed id fails to cast to an ObjectId: the query throws
CastError(id) == id \notin ItemIds

NewId == Cardinality(DOMAIN created) + 1

\* the local variables of a handler that is not running
IdleCall ==
  [pc |-> "idle", itemId |-> 0, quantity |-> 0, paymentType |-> "",
   buyerType |-> "", item |-> [name |-> "", price |-> 0, stock |-> 0]]

InFlight(c) == calls[c].pc # "idle"

Init ==
  /\ items = [i \in {} |-> IdleCall.item]
  /\ created = [i \in {} |-> 0]
  /\ sales = <<>>
  /\ calls = [c \in Calls |-> IdleCall]
  /\ started = 0
  /\ now = ParseDate(1)
  /\ tz \in TzOffsets
  /\ out = NoResponse

\* ------------------------------------------------------- POST /api/items
MissingItemDetails(name, price) == name = "" \/ price = <<>>

CreateItem(req) ==
  LET name == req.name
      price == req.price
      stock == req.stock
  IN  IF MissingItemDetails(name, price)
      THEN /\ out' = Response("create", 400, "Name and price are required", req, <<>>)
           /\ UNCHANGED <<items, created, sales, calls, started, now, tz>>
      ELSE /\ NewId <= MaxItems
           /\ LET id == NewId
                  newItem == [name |-> name, price |-> price[1], stock |-> OrZero(stock)]
              IN  /\ items' = [i \in DOMAIN items \cup {id} |->
                                 IF i = id THEN newItem ELSE items[i]]
                  /\ created' = [i \in DOMAIN created \cup {id} |->
                                   IF i = id THEN newItem.stock ELSE created[i]]
                  /\ out' = Response("create", 200, "", req, <<id>>)
           /\ UNCHANGED <<sales, calls, started, now, tz>>

\* --------------------------------------------------- DELETE /api/items/:id
DeleteItem(id) ==
  IF CastError(id)
  THEN /\ out' = Response("delete", 500, "Failed to delete item", <<id>>, <<>>)
       /\ UNCHANGED <<items, created, sales, calls, started, now, tz>>
  ELSE IF FindById(id) = <<>>
  THEN /\ out' = Response("delete", 404, "Item not found", <<id>>, <<>>)
       /\ UNCHANGED <<items, created, sales, calls, started, now, tz>>
  ELSE /\ items' = [i \in DOMAIN items \ {id} |-> items[i]]
       /\ out' = Response("delete", 200, "", <<id>>, <<>>)
       /\ UNCHANGED <<created, sales, calls, started, now, tz>>

\* -------------------------------------------------------- POST /api/sales
MissingSaleDetails(itemId, quantity, paymentType) ==
  itemId = <<>> \/ Falsy(quantity) \/ paymentType = ""

\* the stock guard dropped
InsufficientStock_NoGuard(item, quantity) == FALSE

\* the stock guard with its operands swapped
InsufficientStock_Swapped(item, quantity) == quantity < item.stock

\* if (item.stock < quantity) return res.status(400)...
InsufficientStock(item, quantity) == item.stock < quantity

\* the total taken to be the unit price
SaleTotal_UnitPrice(item, quantity) == item.price

\* const total = item.price * quantity
SaleTotal(item, quantity) == item.price * quantity

\* the outcome of a finished handler: which of its two writes took effect
Outcome(wrote, appended, sale) == [wrote |-> wrote, appended |-> appended, sale |-> sale]

\* the handler up to its second await: validation, Item.findById, the two
\* guards and the decrement of the local document.  A rejected request is
\* answered at once; an accepted one takes the first free handler
SaleStart(c, req) ==
  LET itemId == req.itemId
      quantity == req.quantity
      reject(status, error) ==
        /\ out' = Response("sale", status, error, req, Outcome(FALSE, FALSE, <<>>))
        /\ UNCHANGED calls
  IN  /\ calls[c].pc = "idle"
      /\ \A d \in Calls : d < c => calls[d].pc # "idle"
      /\ started < MaxCalls
      /\ started' = started + 1
      /\ IF MissingSaleDetails(itemId, quantity, req.paymentType)
         THEN reject(400, "Missing sale details")
         ELSE IF CastError(itemId[1])
         THEN reject(500, "Failed to record sale")
         ELSE IF FindById(itemId[1]) = <<>>
         THEN reject(404, "Item not found")
         ELSE IF InsufficientStock(FindById(itemId[1])[1], quantity[1])
         THEN reject(400, "Not enough stock available")
         ELSE /\ calls' = [calls EXCEPT ![c] =
                   [pc |-> "save", itemId |-> itemId[1], quantity |-> quantity[1],
                    paymentType |-> req.paymentType, buyerType |-> req.buyerType,
                    item |-> [FindById(itemId[1])[1] EXCEPT !.stock = @ - quantity[1]]]]
              /\ out' = NoResponse
      /\ UNCHANGED <<items, created, sales, now, tz>>

\* await item.save(): the stock of the local document is written back; the
\* save of a document that is no longer stored throws
SaleWrite(c) ==
  /\ calls[c].pc = "save"
  /\ IF FindById(calls[c].itemId) = <<>>
     THEN /\ calls' = [calls EXCEPT ![c] = IdleCall]
          /\ out' = Response("sale", 500, "Failed to record sale", <<>>,
                             Outcome(FALSE, FALSE, <<>>))
          /\ UNCHANGED items
     ELSE /\ items' = [items EXCEPT ![calls[c].itemId].stock = calls[c].item.stock]
          /\ calls' = [calls EXCEPT ![c].pc = "append"]
          /\ out' = NoResponse
  /\ UNCHANGED <<created, sales, started, now, tz>>

\* new Sale({...}), at clock reading t
NewSale(c, t) ==
  [item |-> calls[c].itemId, quantity |-> calls[c].quantity,
   total |-> SaleTotal(calls[c].item, calls[c].quantity),
   paymentType |-> calls[c].paymentType,
   buyerType |-> BuyerTypeOrDefault(calls[c].buyerType), date |-> t]

\* new Sale({...}) and await sale.save(): the document is validated against
\* the schema and inserted
SaleAppend(c, t) ==
  /\ calls[c].pc = "append"
  /\ t >= now
  /\ now' = t
  /\ calls' = [calls EXCEPT ![c] = IdleCall]
  /\ IF ValidBuyerType(NewSale(c, t).buyerType)
     THEN /\ sales' = Append(sales, NewSale(c, t))
          /\ out' = Response("sale", 200, "", <<>>, Outcome(TRUE, TRUE, <<NewSale(c, t)>>))
     ELSE /\ out' = Response("sale", 500, "Failed to record sale", <<>>,
                             Outcome(TRUE, FALSE, <<>>))
          /\ UNCHANGED sales
  /\ UNCHANGED <<items, created, started, tz>>

\* ------------------------------------------------------ GET /api/reports/*
HasRange(start, end) == start # <<>> /\ end # <<>>

\* query.date = { $gte: startDate, $lte: endDate }
InQuery(sale, start, end) ==
  HasRange(start, end) =>
    /\ ParseDate(start[1]) <= sale.date
    /\ sale.date <= SetHoursEndOfDay(ParseDate(end[1]))

\* Sale.find(query): the positions in the ledger of the sales found
Find(start, end) ==
  SelectSeq([k \in 1..Len(sales) |-> k], LAMBDA k : InQuery(sales[k], start, end))

\* sale.item ? sale.item.name : "Deleted Item", after populate("item")
ItemLabel(item) == IF item # <<>> THEN item[1].name ELSE "Deleted Item"

Row(sale) ==
  [item |-> ItemLabel(FindById(sale.item)), quantity |-> sale.quantity,
   total |-> ToFixed2(sale.total), paymentType |-> sale.paymentType,
   buyerType |-> sale.buyerType, date |-> ToLocaleString(sale.date)]

\* the rows of the sales whose item still resolves only (an inner join)
ReportRows_Joined(found) ==
  LET kept == SelectSeq(found, LAMBDA k : FindById(sales[k].item) # <<>>)
  IN  [j \in 1..Len(kept) |-> Row(sales[kept[j]])]

\* sales.forEach(...): one row (Excel) or one line (PDF) per sale found
ReportRows(found) == [j \in 1..Len(found) |-> Row(sales[found[j]])]

\* if (!sales.length) return res.status(404)...: the Excel handler only
EmptyCheck(format) == format = "excel"

Report(format, start, end) ==
  LET req == [format |-> format, start |-> start, end |-> end]
      found == Find(start, end)
  IN  /\ IF EmptyCheck(format) /\ Len(found) = 0
         THEN out' = Response("report", 404, "No sales found for selected range", req,
                              [found |-> found, file |-> FALSE, rows |-> <<>>])
         ELSE out' = Response("report", 200, "", req,
                              [found |-> found, file |-> TRUE, rows |-> ReportRows(found)])
      /\ UNCHANGED <<items, created, sales, calls, started, now, tz>>

\* the sale path: every request body, sales interleaved at will, the clock
\* standing still
Next ==
  \/ \E req \in ItemRequests : CreateItem(req)
  \/ \E id \in 0..MaxItems : DeleteItem(id)
  \/ \E c \in Calls, req \in SaleRequests : SaleStart(c, req)
  \/ \E c \in Calls : SaleWrite(c)
  \/ \E c \in Calls : SaleAppend(c, now)

UtcInit == Init /\ tz = 0

Spec == UtcInit /\ [][Next]_vars

\* the sale path for the requests whose sale document passes the schema
SchemaValid(req) == ValidBuyerType(BuyerTypeOrDefault(req.buyerType))

SaleNext ==
  \/ \E req \in ItemRequests : CreateItem(req)
  \/ \E id \in 0..MaxItems : DeleteItem(id)
  \/ \E c \in Calls, req \in {r \in SaleRequests : SchemaValid(r)} : SaleStart(c, req)
  \/ \E c \in Calls : SaleWrite(c)
  \/ \E c \in Calls : SaleAppend(c, now)

SaleSpec == UtcInit /\ [][SaleNext]_vars

\* the report path: complete requests, one sale at a time, the clock
\* running, the server in any time zone, and reports over every range
ReportNext ==
  \/ CreateItem([name |-> "Soda", price |-> <<150>>, stock |-> <<10>>])
  \/ \E id \in ItemIds : DeleteItem(id)
  \/ \E c \in Calls, id \in ItemIds :
       /\ \A d \in Calls : ~InFlight(d)
       /\ SaleStart(c, [itemId |-> <<id>>, quantity |-> <<3>>,
                        paymentType |-> "cash", buyerType |-> ""])
  \/ \E c \in Calls : SaleWrite(c)
  \/ \E c \in Calls, t \in Instants : SaleAppend(c, t)
  \/ \E format \in Formats, start \in DateInputs, end \in DateInputs : Report(format, start, end)

ReportSpec == Init /\ [][ReportNext]_vars

\* ==================================================================== claims
RECURSIVE SoldUpTo(_, _)
\* the quantities of the first n ledger sales referencing item i, summed
SoldUpTo(i, n) ==
  IF n = 0 THEN 0
  ELSE SoldUpTo(i, n - 1) + (IF sales[n].item = i THEN sales[n].quantity ELSE 0)

Sold(i) == SoldUpTo(i, Len(sales))

\* the step is the handling of a sale request up to its guards
SaleRequestStep == started' = started + 1

\* handler c got past the guards in this step
Accepted(c) == calls[c].pc = "idle" /\ calls'[c].pc = "save"

\* ---------------------------------------------------------------------- C1
\* C1: an item created with non-negative stock has stock >= 0 in every
\* reachable state, under every interleaving of the read, the write-back and
\* the ledger append of concurrent sales of the same item.
StockNeverNegative ==
  \A i \in DOMAIN items : created[i] >= 0 => items[i].stock >= 0

\* two sales of one item, created with non-negative stock, have both read the
\* item and both written their stock back, and neither has appended yet
ConcurrentSalesWritten ==
  \E c, d \in Calls :
    /\ c # d
    /\ calls[c].pc = "append" /\ calls[d].pc = "append"
    /\ calls[c].itemId = calls[d].itemId
    /\ calls[c].itemId \in DOMAIN items
    /\ created[calls[c].itemId] >= 0
    /\ items[calls[c].itemId].stock < created[calls[c].itemId]

OnlyPositiveQuantities ==
  /\ \A c \in Calls : InFlight(c) => calls[c].quantity >= 1
  /\ \A k \in 1..Len(sales) : sales[k].quantity >= 1

SaleIsAtomic == out.op = "sale" => (out.body.wrote <=> out.body.appended)

\* ---------------------------------------------------------------------- C6
\* the ledger positions of the sales dated within [start 00:00:00.000,
\* end 23:59:59.999], the days taken in the time zone at offset off
InDays(start, end, off) ==
  {k \in 1..Len(sales) :
     /\ start * MsPerDay - off <= sales[k].date
     /\ sales[k].date <= end * MsPerDay + (MsPerDay - 1) - off}

Range(seq) == {seq[j] : j \in 1..Len(seq)}

\* C6: a report over [start, end] selects exactly the sales dated from
\* start 00:00:00 to end 23:59:59.999, both included (the days read in UTC,
\* or else in the server's time zone); a report without a range selects all.
ReportSelectsRange ==
  out.op = "report" =>
    LET r == out.req
        found == Range(out.body.found)
    IN  /\ (r.start = <<>> /\ r.end = <<>>) => found = 1..Len(sales)
        /\ (r.start # <<>> /\ r.end # <<>>) =>
              \/ found = InDays(r.start[1], r.end[1], 0)
              \/ found = InDays(r.start[1], r.end[1], tz)

\* ---------------------------------------------------------------------- C7
\* the rows of a delivered report: one per sale found, each sale at most
\* once, in ledger order, with the sale's own fields and the item's name, or
\* "Deleted Item" when the item is no longer stored; without a range every
\* sale of the ledger is found
ReportShowsSales ==
  (out.op = "report" /\ out.status = 200) =>
    LET found == out.body.found
        rows == out.body.rows
    IN  /\ out.body.file
        /\ Len(rows) = Len(found)
        /\ \A j \in 1..Len(found) : found[j] \in 1..Len(sales)
        /\ \A j, k \in 1..Len(found) : j < k => found[j] < found[k]
        /\ (out.req.start = <<>> \/ out.req.end = <<>>) => Range(found) = 1..Len(sales)
        /\ \A j \in 1..Len(found) :
             LET sale == sales[found[j]]
             IN  /\ rows[j].item = IF sale.item \in DOMAIN items
                                   THEN items[sale.item].name ELSE "Deleted Item"
                 /\ rows[j].quantity = sale.quantity
                 /\ rows[j].total = ToFixed2(sale.total)
                 /\ rows[j].paymentType = sale.paymentType
                 /\ rows[j].buyerType = sale.buyerType
                 /\ rows[j].date = ToLocaleString(sale.date)

\* C7: deleting an item removes that item only: every sale recorded stays in
\* the ledger with all its fields, and every report delivered afterwards
\* shows each sale it finds exactly once, labelled "Deleted Item" when its
\* item has been deleted.
DeleteKeepsSales ==
  [][/\ \A k \in 1..Len(sales) : Len(sales') >= k /\ sales'[k] = sales[k]
     /\ (out'.op = "delete" /\ out'.status = 200 /\ items' # items) =>
          /\ sales' = sales
          /\ DOMAIN items' = DOMAIN items \ {out'.req[1]}
          /\ \A i \in DOMAIN items' : items'[i] = items[i]
     /\ ReportShowsSales'
  ]_vars

\* a report has been delivered with a row for a sale whose item was deleted
DeletedItemReported ==
  /\ out.op = "report" /\ out.status = 200
  /\ \E j \in 1..Len(out.body.rows) :
       /\ out.body.rows[j].item = "Deleted Item"
       /\ sales[out.body.found[j]].item \notin DOMAIN items
       /\ sales[out.body.found[j]].item \in DOMAIN created

\* ---------------------------------------------------------------------- C8
\* C8: in either format, a report for which no sale is found is answered
\* with 404 and no document.
EmptyReportIsNoData ==
  (out.op = "report" /\ Len(out.body.found) = 0) =>
    out.status = 404 /\ ~out.body.file

\* ---------------------------------------------------------------------- C9
\* C9: every item stored by an accepted create request has stock >= 0, and
\* stock 0 when the request gave no stock.
CreatedStockNonNegative ==
  (out.op = "create" /\ out.status = 200) =>
    /\ created[out.body[1]] >= 0
    /\ out.req.stock = <<>> => created[out.body[1]] = 0

\* --------------------------------------------------------------------- C10
\* C10: when no sale handler is running, and every sale request received
\* was for a positive quantity and has appended its sale, the stock of every
\* stored item is the stock it was created with minus the quantities of the
\* ledger sales referencing it.
NoOverselling ==
  ( /\ \A c \in Calls : ~InFlight(c)
    /\ Len(sales) = started
    /\ \A k \in 1..Len(sales) : sales[k].quantity >= 1 ) =>
    \A i \in DOMAIN items : items[i].stock = created[i] - Sold(i)
====
